---- MODULE Spec2Model ----
(***************************************************************************)
(* The spaced-repetition engine of naidis/core                            *)
(* (src/src/spaced_repetition): the orchestrating store, the two          *)
(* scheduling algorithms, the session builder and the streak tracker.     *)
(*                                                                         *)
(* Conventions of the model                                                *)
(*  - Option<T> is a sequence: None == <<>>, Some(x) == <<x>>.             *)
(*  - Time (DateTime<Utc>) is a whole number of days since the start of    *)
(*    the run; chrono::Duration::days(n) is n.  Several calls may happen   *)
(*    at the same instant.  Utc::now() is read once per call.              *)
(*  - A date string ("%Y-%m-%d") is <<"iso", day>>; <<"bad", 0>> stands    *)
(*    for any text NaiveDate::parse_from_str rejects.                      *)
(*  - f32 ease factors are kept in hundredths (2.5 is 250); f32 half-lives *)
(*    are exact rationals <<num, den>> in lowest terms (every multiplier   *)
(*    of the code is a multiple of 1/4, so the f32 products are exact      *)
(*    within the bounds).                                                  *)
(*  - A recall probability 2^(-p/q) is the pair <<p, q>>; <<0, 0>> is the  *)
(*    probability 0.0 (an infinite exponent).                              *)
(*  - The data directory is the record disk: one field per file, None      *)
(*    while the file is absent, Some(v) once v was saved.  Writes succeed. *)
(***************************************************************************)
EXTENDS Integers, Sequences, FiniteSets, TLC

VARIABLES
    now,             \* the wall clock, Utc::now(), in days
    config,          \* SpacedRepetitionStore.config
    highlight_data,  \* SpacedRepetitionStore.highlight_data : id -> HighlightSRData
    mastery_cards,   \* SpacedRepetitionStore.mastery_cards  : id -> MasteryCard
    stats,           \* SpacedRepetitionStore.stats : ReviewStats
    disk,            \* the files of the data directory, each absent or holding a saved value
    result,          \* the last call and what it returned
    ticks,           \* history: how often the clock was seen to advance
    retired,         \* history: ids on which a Discard or Master review succeeded
    incs,            \* history: date -> how often a review of that date raised current_streak
    sm2_data,        \* an SM2Data value held outside the store
    half_life_data,  \* a HalfLifeData value held outside the store
    session,         \* a ReviewSession in the hands of its caller, if any
    calls,           \* history: calls made on the values held outside the store
    cloze_card,      \* a MasteryCard whose texts are read
    frequency_tuning,  \* a FrequencyTuning value held outside the store
    handlers         \* the request handlers of the server, each with the store it loaded

\* the values the store does not hold
apart == <<cloze_card, frequency_tuning, handlers>>

detached == <<sm2_data, half_life_data, session, calls, apart>>

vars == <<now, ticks, config, highlight_data, mastery_cards, stats, disk, result, retired,
          incs, detached>>

----------------------------------------------------------------------------
(* Bounds of the model *)

MaxTicks == 1       \* the clock advances at most MaxTicks times in one run
MaxReviews == 2     \* reviews recorded in one run
MaxItems == 2       \* highlight records and cards the store holds
MaxCreateTick == 0  \* items are created until the clock has advanced more often than this
MaxHighlights == 2  \* highlight ids h1..
MaxCards == 2       \* card ids c1..

MaxLimit == 1       \* explicit session limits 0..MaxLimit
MaxDay == 4         \* ReviewStats is driven directly on days 0..MaxDay
MaxRecords == 3     \* record_review / record_mastery_review calls made on ReviewStats directly
MaxStreak == 3      \* recover_streak is called while current_streak is below it
MaxGapDay == 9      \* the streak recovery is driven on days 0..MaxGapDay
MaxUpdates == 4     \* update_sm2 / update_halflife calls made on a value held outside the store
MaxDecayDay == 3    \* the decay state is updated on days 0..MaxDecayDay
MaxSessionItems == 3  \* items of a session navigated by its caller
MaxSessionCalls == 6  \* next / previous / complete / is_complete calls made on one session
MaxTextLen == 4     \* characters of a cloze text
MaxDeletions == 2   \* deletions listed on a cloze card
MaxDocs == 2        \* document ids d1..
MaxSourceTypes == 1 \* source types s1..
MaxCount == 1       \* highlight counts 0..MaxCount given to update_document_info
MaxHandlers == 2    \* request handlers running at once

Max(a, b) == IF a >= b THEN a ELSE b
Min(a, b) == IF a <= b THEN a ELSE b

HighlightIds == 1..MaxHighlights
CardIds == 1..MaxCards
\* the clock is read a week apart
TickSteps == {7}
Days == 0..Max(Max(7 * MaxTicks, MaxDay), MaxGapDay)

----------------------------------------------------------------------------
(* Option<T> *)

None == <<>>
Some(x) == <<x>>
IsSome(o) == o # <<>>
Unwrap(o) == o[1]

----------------------------------------------------------------------------
(* algorithm.rs *)

SM2 == "sm2"
HalfLife == "half_life"
AlgorithmType == {SM2, HalfLife}

ReviewFeedback ==
    {"again", "hard", "good", "easy", "soon", "later", "someday", "never"}

SM2Default == [ease_factor |-> 250, interval |-> 0, repetitions |-> 0]

MIN_EASE_FACTOR == 130

\* the quality of a feedback; -1 for Never
quality_from_feedback(feedback) ==
    CASE feedback \in {"again", "soon"} -> 0
      [] feedback = "hard" -> 3
      [] feedback \in {"good", "later"} -> 4
      [] feedback \in {"easy", "someday"} -> 5
      [] OTHER -> -1

\* f32::round of n/100 for n >= 0 (half away from zero)
RoundHundredths(n) == (n + 50) \div 100

\* faulty variant: Never is scored by quality_from_feedback (-1, a lapse)
update_sm2_never_lapses(data, feedback) ==
    LET quality == quality_from_feedback(feedback)
        reps == IF quality < 3 THEN 0 ELSE data.repetitions + 1
        ivl == IF quality < 3 THEN 1
               ELSE IF reps = 1 THEN 1
               ELSE IF reps = 2 THEN 6
               ELSE RoundHundredths(data.interval * data.ease_factor)
        d == 5 - quality
        ef == data.ease_factor + 10 - d * (8 + d * 2)
    IN  [ease_factor |-> Max(ef, MIN_EASE_FACTOR),
         interval |-> ivl,
         repetitions |-> reps]

\* faulty variant: the ease factor is not floored
update_sm2_unfloored(data, feedback) ==
    LET quality == quality_from_feedback(feedback)
        reps == IF quality < 3 THEN 0 ELSE data.repetitions + 1
        ivl == IF quality < 3 THEN 1
               ELSE IF reps = 1 THEN 1
               ELSE IF reps = 2 THEN 6
               ELSE RoundHundredths(data.interval * data.ease_factor)
        d == 5 - quality
    IN  IF feedback = "never" THEN data
        ELSE [ease_factor |-> data.ease_factor + 10 - d * (8 + d * 2),
              interval |-> ivl,
              repetitions |-> reps]

\* faulty variant: the interval is stretched by the ease factor after the update
update_sm2_new_ease(data, feedback) ==
    LET quality == quality_from_feedback(feedback)
        reps == IF quality < 3 THEN 0 ELSE data.repetitions + 1
        d == 5 - quality
        ef == Max(data.ease_factor + 10 - d * (8 + d * 2), MIN_EASE_FACTOR)
        ivl == IF quality < 3 THEN 1
               ELSE IF reps = 1 THEN 1
               ELSE IF reps = 2 THEN 6
               ELSE RoundHundredths(data.interval * ef)
    IN  IF feedback = "never" THEN data
        ELSE [ease_factor |-> ef, interval |-> ivl, repetitions |-> reps]

\* faulty variant: a lapse leaves an interval of no days
update_sm2_lapse_zero(data, feedback) ==
    LET quality == quality_from_feedback(feedback)
        reps == IF quality < 3 THEN 0 ELSE data.repetitions + 1
        ivl == IF quality < 3 THEN 0
               ELSE IF reps = 1 THEN 1
               ELSE IF reps = 2 THEN 6
               ELSE RoundHundredths(data.interval * data.ease_factor)
        d == 5 - quality
        ef == data.ease_factor + 10 - d * (8 + d * 2)
    IN  IF feedback = "never" THEN data
        ELSE [ease_factor |-> Max(ef, MIN_EASE_FACTOR),
              interval |-> ivl,
              repetitions |-> reps]

update_sm2(data, feedback) ==
    LET quality == quality_from_feedback(feedback)
        reps == IF quality < 3 THEN 0 ELSE data.repetitions + 1
        ivl == IF quality < 3 THEN 1
               ELSE IF reps = 1 THEN 1
               ELSE IF reps = 2 THEN 6
               ELSE RoundHundredths(data.interval * data.ease_factor)
        d == 5 - quality
        \* 0.1 - (5 - q) * (0.08 + (5 - q) * 0.02), in hundredths
        ef == data.ease_factor + 10 - d * (8 + d * 2)
    IN  IF feedback = "never" THEN data
        ELSE [ease_factor |-> Max(ef, MIN_EASE_FACTOR),
              interval |-> ivl,
              repetitions |-> reps]

RECURSIVE GCD(_, _)
GCD(a, b) == IF b = 0 THEN a ELSE GCD(b, a % b)

\* the rational n/d in lowest terms
Rat(n, d) == LET g == GCD(n, d) IN <<n \div g, d \div g>>

DEFAULT_HALF_LIFE == Rat(7, 1)

HalfLifeDefault == [half_life_days |-> DEFAULT_HALF_LIFE, last_reviewed_at |-> None]

\* the multiplier of a feedback, in quarters; 0 for Never
HalfLifeMultiplier(feedback) ==
    CASE feedback \in {"again", "soon"} -> 2
      [] feedback = "hard" -> 3
      [] feedback \in {"good", "later"} -> 4
      [] feedback \in {"easy", "someday"} -> 6
      [] OTHER -> 0

\* faulty variant: the half-life is not floored
update_halflife_unfloored(data, feedback, t) ==
    LET m == HalfLifeMultiplier(feedback)
    IN  IF feedback = "never" THEN data
        ELSE [half_life_days |-> Rat(data.half_life_days[1] * m, data.half_life_days[2] * 4),
              last_reviewed_at |-> Some(t)]

update_halflife(data, feedback, t) ==
    LET m == HalfLifeMultiplier(feedback)
        hl == Rat(data.half_life_days[1] * m, data.half_life_days[2] * 4)
    IN  IF feedback = "never" THEN data
        ELSE [half_life_days |-> IF hl[1] < hl[2] THEN Rat(1, 1) ELSE hl,
              last_reviewed_at |-> Some(t)]

ProbZero == <<0, 0>>

\* 2^(-elapsed_days / half_life_days) at instant t, as the exponent's fraction
recall_probability(data, t) ==
    IF data.last_reviewed_at = None THEN ProbZero
    ELSE LET elapsed_days == t - Unwrap(data.last_reviewed_at)
         IN  <<elapsed_days * data.half_life_days[2], data.half_life_days[1]>>

\* a <= b on recall probabilities (f64::partial_cmp is not Greater)
ProbLeq(a, b) ==
    \/ a[2] = 0
    \/ b[2] # 0 /\ a[1] * b[2] >= b[1] * a[2]

ProbLess(a, b) == ~ProbLeq(b, a)

\* the probability 0.5, 2^(-1/1)
RECALL_THRESHOLD == <<1, 1>>

\* recall_probability(data) <= RECALL_THRESHOLD at instant t
is_due_for_review(data, t) == ProbLeq(recall_probability(data, t), RECALL_THRESHOLD)

\* last_reviewed + Duration::days(half_life_days as i64): the cast truncates
next_review_date(data) ==
    IF data.last_reviewed_at = None THEN None
    ELSE Some(Unwrap(data.last_reviewed_at)
              + (data.half_life_days[1] \div data.half_life_days[2]))

----------------------------------------------------------------------------
(* stats.rs *)

\* at.format("%Y-%m-%d").to_string()
FormatDate(at) == <<"iso", at>>

BadDate == <<"bad", 0>>

\* NaiveDate::parse_from_str(s, "%Y-%m-%d").ok()
ParseDate(s) == IF s[1] = "iso" THEN Some(s[2]) ELSE None

StreakDefault ==
    [current_streak |-> 0, longest_streak |-> 0,
     last_review_date |-> None, streak_start_date |-> None]

DailyStatsNew(date) ==
    [date |-> date, highlights_reviewed |-> 0, mastery_cards_reviewed |-> 0,
     session_count |-> 0, completed_sessions |-> 0]

ReviewStatsDefault(t) ==
    [total_reviews |-> 0, total_highlights_reviewed |-> 0,
     total_mastery_cards_reviewed |-> 0,
     reviews_by_date |-> <<>>,
     streak |-> StreakDefault,
     updated_at |-> t]

\* the streak after the current streak was settled: last_review_date and the high-water mark
StreakTail(streak, today) ==
    [streak EXCEPT !.last_review_date = Some(today),
                   !.longest_streak = Max(streak.current_streak, streak.longest_streak)]

\* faulty variant: a review after a gap continues the streak
update_streak_bridging(streak, today) ==
    IF streak.last_review_date = None
    THEN StreakTail([streak EXCEPT !.current_streak = 1,
                                   !.streak_start_date = Some(today)], today)
    ELSE IF Unwrap(streak.last_review_date) = today
    THEN streak
    ELSE LET last == ParseDate(Unwrap(streak.last_review_date))
             current == ParseDate(today)
             diff == Unwrap(current) - Unwrap(last)
         IN  IF IsSome(last) /\ IsSome(current) /\ diff >= 1
             THEN StreakTail([streak EXCEPT !.current_streak = @ + 1], today)
             ELSE StreakTail(streak, today)

update_streak(streak, today) ==
    IF streak.last_review_date = None
    THEN StreakTail([streak EXCEPT !.current_streak = 1,
                                   !.streak_start_date = Some(today)], today)
    ELSE IF Unwrap(streak.last_review_date) = today
    THEN streak
    ELSE LET last == ParseDate(Unwrap(streak.last_review_date))
             current == ParseDate(today)
             diff == Unwrap(current) - Unwrap(last)
         IN  IF IsSome(last) /\ IsSome(current)
             THEN IF diff = 1
                  THEN StreakTail([streak EXCEPT !.current_streak = @ + 1], today)
                  ELSE IF diff > 1
                  THEN StreakTail([streak EXCEPT !.current_streak = 1,
                                                 !.streak_start_date = Some(today)], today)
                  ELSE StreakTail(streak, today)
             ELSE StreakTail(streak, today)

\* reviews_by_date.entry(date).or_insert_with(DailyStats::new)
DailyEntry(by_date, date) ==
    IF date \in DOMAIN by_date THEN by_date[date] ELSE DailyStatsNew(date)

PutDaily(by_date, date, daily) ==
    [d \in DOMAIN by_date \cup {date} |-> IF d = date THEN daily ELSE by_date[d]]

record_review(st, at) ==
    LET date_str == FormatDate(at)
        daily == DailyEntry(st.reviews_by_date, date_str)
    IN  [st EXCEPT !.total_reviews = @ + 1,
                   !.updated_at = at,
                   !.reviews_by_date =
                       PutDaily(@, date_str,
                                [daily EXCEPT !.highlights_reviewed = @ + 1]),
                   !.streak = update_streak(@, date_str)]

record_mastery_review(st, at) ==
    LET date_str == FormatDate(at)
        daily == DailyEntry(st.reviews_by_date, date_str)
    IN  [st EXCEPT !.total_mastery_cards_reviewed = @ + 1,
                   !.updated_at = at,
                   !.reviews_by_date =
                       PutDaily(@, date_str,
                                [daily EXCEPT !.mastery_cards_reviewed = @ + 1]),
                   !.streak = update_streak(@, date_str)]

\* faulty variant: the window opens one day early
can_recover_streak_from_one(st, today) ==
    /\ IsSome(st.streak.last_review_date)
    /\ IsSome(ParseDate(Unwrap(st.streak.last_review_date)))
    /\ LET diff == today - Unwrap(ParseDate(Unwrap(st.streak.last_review_date)))
       IN  diff >= 1 /\ diff <= 7

\* today is Utc::now().date_naive()
can_recover_streak(st, today) ==
    /\ IsSome(st.streak.last_review_date)
    /\ IsSome(ParseDate(Unwrap(st.streak.last_review_date)))
    /\ LET diff == today - Unwrap(ParseDate(Unwrap(st.streak.last_review_date)))
       IN  diff >= 2 /\ diff <= 7

\* faulty variant: the recovered streak is not carried into longest_streak
recover_streak_unmarked(st, date_str, today) ==
    IF ~can_recover_streak(st, today) THEN st
    ELSE [st EXCEPT !.streak =
            [@ EXCEPT !.current_streak = @ + 1,
                      !.last_review_date = Some(date_str)]]

\* faulty variant: the recovered streak is not checked against the window
recover_streak_unguarded(st, date_str, today) ==
    [st EXCEPT !.streak =
        [@ EXCEPT !.current_streak = @ + 1,
                  !.last_review_date = Some(date_str),
                  !.longest_streak = Max(st.streak.current_streak + 1, @)]]

\* the stats after recover_streak(date_str); the call returns can_recover_streak
recover_streak(st, date_str, today) ==
    IF ~can_recover_streak(st, today) THEN st
    ELSE [st EXCEPT !.streak =
            [@ EXCEPT !.current_streak = @ + 1,
                      !.last_review_date = Some(date_str),
                      !.longest_streak = Max(st.streak.current_streak + 1, @)]]

----------------------------------------------------------------------------
(* mod.rs, mastery.rs: the records *)

Active == "active"
Discarded == "discarded"
Mastered == "mastered"

HighlightReviewAction == {"keep", "discard", "master"}

DefaultPerDay == 10

ConfigDefault ==
    [algorithm_type |-> HalfLife,
     highlights_per_day |-> DefaultPerDay,
     mastery_cards_per_day |-> DefaultPerDay]

\* HighlightSRData::new at instant t
HighlightSRDataNew(highlight_id, algorithm_type, t) ==
    [highlight_id |-> highlight_id,
     sm2 |-> IF algorithm_type = SM2 THEN Some(SM2Default) ELSE None,
     half_life |-> IF algorithm_type = HalfLife THEN Some(HalfLifeDefault) ELSE None,
     status |-> Active,
     review_count |-> 0,
     last_reviewed_at |-> None,
     next_review_at |-> Some(t),
     created_at |-> t,
     updated_at |-> t]

\* MasteryCard::new at instant t (the card's texts are carried unread by the scheduler)
MasteryCardNew(id, algorithm_type, t) ==
    [id |-> id,
     sm2 |-> IF algorithm_type = SM2 THEN Some(SM2Default) ELSE None,
     half_life |-> IF algorithm_type = HalfLife THEN Some(HalfLifeDefault) ELSE None,
     review_count |-> 0,
     last_reviewed_at |-> None,
     next_review_at |-> Some(t),
     is_suspended |-> FALSE,
     created_at |-> t,
     updated_at |-> t]

\* the algorithm step shared by both reviews: the state of the configured
\* algorithm, when the item holds one, is updated and next_review_at recomputed
Reschedule(item, algorithm_type, feedback, t) ==
    IF algorithm_type = SM2
    THEN IF IsSome(item.sm2)
         THEN LET sm2 == update_sm2(Unwrap(item.sm2), feedback)
              IN  [item EXCEPT !.sm2 = Some(sm2),
                               !.next_review_at = Some(t + sm2.interval)]
         ELSE item
    ELSE IF IsSome(item.half_life)
         THEN LET hl == update_halflife(Unwrap(item.half_life), feedback, t)
              IN  [item EXCEPT !.half_life = Some(hl),
                               !.next_review_at = next_review_date(hl)]
         ELSE item

\* faulty variant: Keep is scored as the best feedback
ReviewedHighlightKeepEasy(sr_data, action, algorithm_type, t) ==
    LET stamped == [sr_data EXCEPT !.last_reviewed_at = Some(t),
                                   !.review_count = @ + 1,
                                   !.updated_at = t]
    IN  CASE action = "keep" ->
                Reschedule(stamped, algorithm_type,
                           IF algorithm_type = SM2 THEN "easy" ELSE "someday", t)
          [] action = "discard" ->
                [stamped EXCEPT !.status = Discarded, !.next_review_at = None]
          [] action = "master" ->
                [stamped EXCEPT !.status = Mastered, !.next_review_at = None]

\* faulty variant: Keep puts the record back into rotation
ReviewedHighlightReactivating(sr_data, action, algorithm_type, t) ==
    LET stamped == [sr_data EXCEPT !.last_reviewed_at = Some(t),
                                   !.review_count = @ + 1,
                                   !.updated_at = t]
    IN  CASE action = "keep" ->
                Reschedule([stamped EXCEPT !.status = Active], algorithm_type,
                           IF algorithm_type = SM2 THEN "good" ELSE "later", t)
          [] action = "discard" ->
                [stamped EXCEPT !.status = Discarded, !.next_review_at = None]
          [] action = "master" ->
                [stamped EXCEPT !.status = Mastered, !.next_review_at = None]

\* the record review_highlight leaves for a record that exists
ReviewedHighlight(sr_data, action, algorithm_type, t) ==
    LET stamped == [sr_data EXCEPT !.last_reviewed_at = Some(t),
                                   !.review_count = @ + 1,
                                   !.updated_at = t]
    IN  CASE action = "keep" ->
                Reschedule(stamped, algorithm_type,
                           IF algorithm_type = SM2 THEN "good" ELSE "later", t)
          [] action = "discard" ->
                [stamped EXCEPT !.status = Discarded, !.next_review_at = None]
          [] action = "master" ->
                [stamped EXCEPT !.status = Mastered, !.next_review_at = None]

\* the card review_mastery_card leaves for a card that exists
ReviewedCard(card, feedback, algorithm_type, t) ==
    Reschedule([card EXCEPT !.last_reviewed_at = Some(t),
                            !.review_count = @ + 1,
                            !.updated_at = t],
               algorithm_type, feedback, t)

----------------------------------------------------------------------------
(* mastery.rs: the texts of a card.  A String is the sequence of its         *)
(* one-byte characters; offsets count from 0                                *)

QA == "qa"
Cloze == "cloze"

\* the outcome of a call that panicked
Panic == <<"panic">>

\* Option<String>::unwrap_or_default
UnwrapOrDefault(o) == IF IsSome(o) THEN Unwrap(o) ELSE <<>>

\* the decimal digits of n, as format!("{}", n) writes them
RECURSIVE Digits(_)
Digits(n) ==
    LET digit(d) == <<"0", "1", "2", "3", "4", "5", "6", "7", "8", "9">>[d + 1]
    IN  IF n < 10 THEN <<digit(n)>> ELSE Digits(n \div 10) \o <<digit(n % 10)>>

\* format!("[...{}...]", hint) or format!("[...{}...]", i + 1), i the index in the list
Placeholder(i, deletion) ==
    <<"[", ".", ".", ".">>
    \o (IF IsSome(deletion.hint) THEN Unwrap(deletion.hint) ELSE Digits(i + 1))
    \o <<".", ".", ".", "]">>

\* String::replace_range(start..end, replacement); a range that is reversed
\* or ends behind the text panics
replace_range(text, start, end, replacement) ==
    IF start > end \/ end > Len(text) THEN Panic
    ELSE SubSeq(text, 1, start) \o replacement \o SubSeq(text, end + 1, Len(text))

\* the loop over cloze_deletions.iter().enumerate().rev(): deletions k, k-1, .., 1 of the list
RECURSIVE Redact(_, _, _)
Redact(text, deletions, k) ==
    IF k = 0 \/ text = Panic THEN text
    ELSE LET deletion == deletions[k]
         IN  Redact(IF deletion.end <= Len(text)
                    THEN replace_range(text, deletion.start, deletion.end,
                                       Placeholder(k - 1, deletion))
                    ELSE text,
                    deletions, k - 1)

get_display_text(card) ==
    IF card.card_type = QA THEN UnwrapOrDefault(card.question)
    ELSE Redact(UnwrapOrDefault(card.cloze_text), card.cloze_deletions,
                Len(card.cloze_deletions))

get_answer_text(card) ==
    IF card.card_type = QA THEN UnwrapOrDefault(card.answer)
    ELSE UnwrapOrDefault(card.cloze_text)

----------------------------------------------------------------------------
(* frequency.rs.  An f32 multiplier is <<"num", n>> for n hundredths,        *)
(* <<"inf", 1>> and <<"inf", -1>> for the infinities, <<"nan", 0>> for NaN   *)

F32(n) == <<"num", n>>
NaN == <<"nan", 0>>
Infinity == <<"inf", 1>>
NegInfinity == <<"inf", -1>>

\* a < b on f32: false when either side is NaN
F32Lt(a, b) ==
    CASE a[1] = "nan" \/ b[1] = "nan" -> FALSE
      [] a[1] = "inf" -> a[2] < 0 /\ b # a
      [] b[1] = "inf" -> b[2] > 0
      [] OTHER -> a[2] < b[2]

\* f32::clamp: min when x < min, max when x > max, x otherwise (NaN stays NaN)
clamp(x, min, max) ==
    LET low == IF F32Lt(x, min) THEN min ELSE x
    IN  IF F32Lt(max, low) THEN max ELSE low

MIN_MULTIPLIER == F32(10)
MAX_MULTIPLIER == F32(1000)
DEFAULT_MULTIPLIER == F32(100)

FrequencyTuningDefault == [documents |-> <<>>, source_types |-> <<>>]

\* HashMap::insert
MapInsert(map, key, value) ==
    [k \in DOMAIN map \cup {key} |-> IF k = key THEN value ELSE map[k]]

\* HashMap::remove
MapRemove(map, key) == [k \in DOMAIN map \ {key} |-> map[k]]

set_document(tuning, document_id, multiplier) ==
    LET clamped == clamp(multiplier, MIN_MULTIPLIER, MAX_MULTIPLIER)
    IN  IF document_id \in DOMAIN tuning.documents
        THEN [tuning EXCEPT !.documents[document_id].multiplier = clamped]
        ELSE [tuning EXCEPT !.documents =
                MapInsert(@, document_id,
                          [document_id |-> document_id, title |-> None,
                           multiplier |-> clamped, highlight_count |-> 0])]

set_source_type(tuning, source_type, multiplier) ==
    [tuning EXCEPT !.source_types =
        MapInsert(@, source_type, clamp(multiplier, MIN_MULTIPLIER, MAX_MULTIPLIER))]

remove_document(tuning, document_id) ==
    [tuning EXCEPT !.documents = MapRemove(@, document_id)]

remove_source_type(tuning, source_type) ==
    [tuning EXCEPT !.source_types = MapRemove(@, source_type)]

update_document_info(tuning, document_id, title, highlight_count) ==
    IF document_id \in DOMAIN tuning.documents
    THEN [tuning EXCEPT !.documents[document_id].title = title,
                        !.documents[document_id].highlight_count = highlight_count]
    ELSE [tuning EXCEPT !.documents =
            MapInsert(@, document_id,
                      [document_id |-> document_id, title |-> title,
                       multiplier |-> DEFAULT_MULTIPLIER,
                       highlight_count |-> highlight_count])]

----------------------------------------------------------------------------
(* session.rs *)

\* next_review_at.map(|d| d <= now).unwrap_or(true)
DueAt(next_review_at, t) == IF IsSome(next_review_at) THEN Unwrap(next_review_at) <= t ELSE TRUE

\* faulty variant: the status of the record is not looked at
IsDueHighlightAnyStatus(h, t) == DueAt(h.next_review_at, t)

IsDueHighlight(h, t) == h.status = Active /\ DueAt(h.next_review_at, t)

IsDueCard(c, t) == ~c.is_suspended /\ DueAt(c.next_review_at, t)

\* half_life.as_ref().map(halflife::recall_probability)
ItemProbability(item, t) ==
    IF IsSome(item.half_life) THEN Some(recall_probability(Unwrap(item.half_life), t)) ELSE None

\* .unwrap_or(0.0): the sort key
SortKey(item, t) ==
    IF IsSome(item.half_life) THEN recall_probability(Unwrap(item.half_life), t) ELSE ProbZero

\* the orders in which HashMap::values() may yield the entries with ids in S
Orders(S) ==
    {s \in [1..Cardinality(S) -> S] : \A i, j \in DOMAIN s : i # j => s[i] # s[j]}

\* faulty variant: the comparison is turned round, the sort descends
RECURSIVE InsertDescending(_, _, _, _)
InsertDescending(s, x, items, t) ==
    IF s = <<>> THEN <<x>>
    ELSE IF ProbLess(SortKey(items[Head(s)], t), SortKey(items[x], t))
         THEN <<x>> \o s
         ELSE <<Head(s)>> \o InsertDescending(Tail(s), x, items, t)

\* x placed in the sorted sequence s behind every element not greater than it
RECURSIVE Insert(_, _, _, _)
Insert(s, x, items, t) ==
    IF s = <<>> THEN <<x>>
    ELSE IF ProbLess(SortKey(items[x], t), SortKey(items[Head(s)], t))
         THEN <<x>> \o s
         ELSE <<Head(s)>> \o Insert(Tail(s), x, items, t)

\* sort_by(partial_cmp of the keys): a stable sort of the ids of seq
RECURSIVE SortByProbability(_, _, _)
SortByProbability(seq, items, t) ==
    IF seq = <<>> THEN <<>>
    ELSE Insert(SortByProbability(SubSeq(seq, 1, Len(seq) - 1), items, t),
                seq[Len(seq)], items, t)

\* into_iter().take(n)
Take(seq, n) == SubSeq(seq, 1, Min(n, Len(seq)))

ReviewItemOf(kind, id, item, t) ==
    [id |-> id,
     item_type |-> kind,
     recall_probability |-> ItemProbability(item, t),
     last_reviewed_at |-> item.last_reviewed_at,
     review_count |-> item.review_count]

\* the items of a session: the kept highlights, then the kept cards
SessionItems(h_order, c_order, highlight_limit, mastery_limit, t) ==
    LET hs == Take(SortByProbability(h_order, highlight_data, t), highlight_limit)
        cs == Take(SortByProbability(c_order, mastery_cards, t), mastery_limit)
    IN  [i \in 1..Len(hs) |-> ReviewItemOf("highlight", hs[i], highlight_data[hs[i]], t)]
        \o [i \in 1..Len(cs) |-> ReviewItemOf("mastery_card", cs[i], mastery_cards[cs[i]], t)]

\* ReviewSession::new
ReviewSessionNew(items, session_type, t) ==
    [items |-> items,
     current_index |-> 0,
     completed_count |-> 0,
     started_at |-> t,
     completed_at |-> None,
     session_type |-> session_type]

\* ReviewSession::current_item
current_item(s) ==
    IF s.current_index + 1 \in 1..Len(s.items) THEN Some(s.items[s.current_index + 1]) ELSE None

\* faulty variant: the cursor advances past the end
next_unguarded(s) == [s EXCEPT !.completed_count = @ + 1, !.current_index = @ + 1]

\* ReviewSession::next: the session it leaves
next(s) ==
    IF s.current_index < Len(s.items)
    THEN [s EXCEPT !.completed_count = @ + 1, !.current_index = @ + 1]
    ELSE s

\* faulty variant: stepping back takes the count back too
previous_uncounting(s) ==
    IF s.current_index > 0
    THEN [s EXCEPT !.current_index = @ - 1, !.completed_count = @ - 1]
    ELSE s

\* ReviewSession::previous: the session it leaves
previous(s) ==
    IF s.current_index > 0 THEN [s EXCEPT !.current_index = @ - 1] ELSE s

is_complete(s) == s.current_index >= Len(s.items)

complete(s, t) == [s EXCEPT !.completed_at = Some(t)]

----------------------------------------------------------------------------
(* Inputs *)

PerDayValues == {1, DefaultPerDay}

\* update_config is given the default config with at most one field changed
Configs ==
    {c \in [algorithm_type : AlgorithmType,
            highlights_per_day : PerDayValues,
            mastery_cards_per_day : PerDayValues] :
        Cardinality({f \in DOMAIN c : c[f] # ConfigDefault[f]}) <= 1}

\* the store holds fewer than MaxItems items, early in the run
HasRoom ==
    /\ ticks <= MaxCreateTick
    /\ Cardinality(DOMAIN highlight_data) + Cardinality(DOMAIN mastery_cards) < MaxItems

Limits == {None} \cup {Some(n) : n \in 0..MaxLimit}

SessionTypes == {"daily"}

\* a request states at most one of the two limits
CreateSessionRequests ==
    {req \in [session_type : SessionTypes, highlight_limit : Limits, mastery_limit : Limits] :
        req.highlight_limit = None \/ req.mastery_limit = None}

StatsDays == 0..MaxDay

DateStrings == {FormatDate(d) : d \in StatsDays} \cup {BadDate}

DocumentIds == 1..MaxDocs
SourceTypeIds == 1..MaxSourceTypes

\* arguments below, inside and above the range, the infinities and NaN
Multipliers == {F32(1), F32(250), F32(10000), Infinity, NegInfinity, NaN}

HandlerIds == 1..MaxHandlers

\* the cloze text: the letters a to f, over and over
ClozeText == [i \in 1..MaxTextLen |-> <<"a", "b", "c", "d", "e", "f">>[((i - 1) % 6) + 1]]

\* spans within the text, behind its end and reversed ones, with and without a hint
ClozeDeletions ==
    [start : 0..(MaxTextLen + 1), end : 0..(MaxTextLen + 1), hint : {None, Some(<<"h">>)}]

\* a question-and-answer card, a cloze card without text and the cloze cards
\* of the one text with every list of deletions
TextCards ==
    {[card_type |-> QA, question |-> Some(<<"q">>), answer |-> Some(<<"r">>),
      cloze_text |-> None, cloze_deletions |-> <<>>],
     [card_type |-> QA, question |-> None, answer |-> None,
      cloze_text |-> None, cloze_deletions |-> <<>>],
     [card_type |-> Cloze, question |-> None, answer |-> None,
      cloze_text |-> None, cloze_deletions |-> <<>>]}
    \cup {[card_type |-> Cloze, question |-> None, answer |-> None,
           cloze_text |-> Some(ClozeText), cloze_deletions |-> ds] :
             ds \in UNION {[1..n -> ClozeDeletions] : n \in 0..MaxDeletions}}

Ok(op, args, value) == [op |-> op, args |-> args, ok |-> TRUE, value |-> value]
Err(op, args, error) == [op |-> op, args |-> args, ok |-> FALSE, value |-> error]

----------------------------------------------------------------------------
(* The store: SpacedRepetitionStore on an empty data directory *)

StoreInit ==
    /\ now = 0
    /\ ticks = 0
    /\ config = ConfigDefault
    /\ highlight_data = <<>>
    /\ mastery_cards = <<>>
    /\ stats = ReviewStatsDefault(0)
    /\ disk = [config |-> None, highlight_data |-> None, mastery_cards |-> None,
               stats |-> None]
    /\ result = Ok("new", <<>>, <<>>)
    /\ retired = {}
    /\ incs = [d \in Days |-> 0]

\* the values of the other modules, as their constructors leave them
ApartInit ==
    /\ cloze_card = [card_type |-> QA, question |-> None, answer |-> None,
                     cloze_text |-> None, cloze_deletions |-> <<>>]
    /\ frequency_tuning = FrequencyTuningDefault
    /\ handlers = [h \in HandlerIds |-> [pc |-> "idle", call |-> None, store |-> None]]

Init ==
    /\ StoreInit
    /\ sm2_data = SM2Default
    /\ half_life_data = HalfLifeDefault
    /\ session = None
    /\ calls = 0
    /\ ApartInit

\* the history of streak increments which a review recorded at instant at leaves
IncsAfter(st, st2, at) ==
    IF st2.streak.current_streak > st.streak.current_streak
    THEN [incs EXCEPT ![at] = @ + 1]
    ELSE incs

\* time passes
Tick(d) ==
    /\ ticks < MaxTicks
    /\ ticks' = ticks + 1
    /\ now' = now + d
    /\ result' = Ok("tick", <<>>, <<>>)
    /\ UNCHANGED <<detached, disk, config, highlight_data, mastery_cards, stats, retired, incs>>

update_config(c) ==
    /\ config' = c
    /\ disk' = [disk EXCEPT !.config = Some(config')]
    /\ result' = Ok("update_config", c, <<>>)
    /\ UNCHANGED <<detached, now, ticks, highlight_data, mastery_cards, stats, retired, incs>>

\* faulty variant: the record is created anew whether or not the id is known
RegisteredHighlightsOverwriting(id) ==
    [h \in DOMAIN highlight_data \cup {id} |->
        IF h = id THEN HighlightSRDataNew(id, config.algorithm_type, now)
        ELSE highlight_data[h]]

\* the map after register_highlight(id)
RegisteredHighlights(id) ==
    IF id \in DOMAIN highlight_data
    THEN highlight_data
    ELSE [h \in DOMAIN highlight_data \cup {id} |->
            IF h = id THEN HighlightSRDataNew(id, config.algorithm_type, now)
            ELSE highlight_data[h]]

\* ids are interchangeable: new ids are taken in order
register_highlight(id) ==
    /\ id \in DOMAIN highlight_data
       \/ (HasRoom /\ \A j \in HighlightIds : j < id => j \in DOMAIN highlight_data)
    /\ highlight_data' = RegisteredHighlights(id)
    /\ disk' = IF id \in DOMAIN highlight_data THEN disk
               ELSE [disk EXCEPT !.highlight_data = Some(highlight_data')]
    /\ result' = Ok("register_highlight", id, highlight_data'[id])
    /\ UNCHANGED <<detached, now, ticks, config, mastery_cards, stats, retired, incs>>

review_highlight(id, action) ==
    IF id \notin DOMAIN highlight_data
    THEN /\ result' = Err("review_highlight", <<>>, "HighlightNotFound")
         /\ UNCHANGED <<detached, disk, now, ticks, config, highlight_data, mastery_cards, stats, retired, incs>>
    ELSE /\ stats.total_reviews < MaxReviews
         /\ highlight_data' =
              [highlight_data EXCEPT
                 ![id] = ReviewedHighlight(@, action, config.algorithm_type, now)]
         /\ stats' = record_review(stats, now)
         /\ result' = Ok("review_highlight", <<id, action>>, highlight_data'[id])
         /\ retired' = IF action = "keep" THEN retired ELSE retired \cup {id}
         /\ incs' = IncsAfter(stats, stats', now)
         /\ disk' = [disk EXCEPT !.highlight_data = Some(highlight_data'),
                                 !.stats = Some(stats')]
         /\ UNCHANGED <<detached, now, ticks, config, mastery_cards>>

\* Uuid::new_v4() is an id no card holds
create_mastery_card ==
    \E id \in CardIds \ DOMAIN mastery_cards :
        /\ HasRoom
        /\ \A j \in CardIds : j < id => j \in DOMAIN mastery_cards
        /\ mastery_cards' =
              [c \in DOMAIN mastery_cards \cup {id} |->
                 IF c = id THEN MasteryCardNew(id, config.algorithm_type, now)
                 ELSE mastery_cards[c]]
        /\ disk' = [disk EXCEPT !.mastery_cards = Some(mastery_cards')]
        /\ result' = Ok("create_mastery_card", <<>>, mastery_cards'[id])
        /\ UNCHANGED <<detached, now, ticks, config, highlight_data, stats, retired, incs>>

\* faulty variant: the review is counted before the card is looked up
review_mastery_card_counting(id, feedback) ==
    /\ stats.total_reviews < MaxReviews
    /\ stats' = record_review(stats, now)
    /\ incs' = IncsAfter(stats, stats', now)
    /\ IF id \notin DOMAIN mastery_cards
       THEN /\ result' = Err("review_mastery_card", <<>>, "CardNotFound")
            /\ disk' = [disk EXCEPT !.stats = Some(stats')]
            /\ UNCHANGED <<detached, now, ticks, config, highlight_data, mastery_cards, retired>>
       ELSE /\ mastery_cards' =
                 [mastery_cards EXCEPT
                    ![id] = ReviewedCard(@, feedback, config.algorithm_type, now)]
            /\ result' = Ok("review_mastery_card", <<id, feedback>>, mastery_cards'[id])
            /\ disk' = [disk EXCEPT !.mastery_cards = Some(mastery_cards'),
                                    !.stats = Some(stats')]
            /\ UNCHANGED <<detached, now, ticks, config, highlight_data, retired>>

review_mastery_card(id, feedback) ==
    IF id \notin DOMAIN mastery_cards
    THEN /\ result' = Err("review_mastery_card", <<>>, "CardNotFound")
         /\ UNCHANGED <<detached, disk, now, ticks, config, highlight_data, mastery_cards, stats, retired, incs>>
    ELSE /\ stats.total_reviews < MaxReviews
         /\ mastery_cards' =
              [mastery_cards EXCEPT
                 ![id] = ReviewedCard(@, feedback, config.algorithm_type, now)]
         /\ stats' = record_review(stats, now)
         /\ result' = Ok("review_mastery_card", <<id, feedback>>, mastery_cards'[id])
         /\ incs' = IncsAfter(stats, stats', now)
         /\ disk' = [disk EXCEPT !.mastery_cards = Some(mastery_cards'),
                                 !.stats = Some(stats')]
         /\ UNCHANGED <<detached, now, ticks, config, highlight_data, retired>>

delete_mastery_card(id) ==
    IF id \notin DOMAIN mastery_cards
    THEN /\ result' = Err("delete_mastery_card", <<>>, "CardNotFound")
         /\ UNCHANGED <<detached, disk, now, ticks, config, highlight_data, mastery_cards, stats, retired, incs>>
    ELSE /\ mastery_cards' = [c \in DOMAIN mastery_cards \ {id} |-> mastery_cards[c]]
         /\ disk' = [disk EXCEPT !.mastery_cards = Some(mastery_cards')]
         /\ result' = Ok("delete_mastery_card", id, <<>>)
         /\ UNCHANGED <<detached, now, ticks, config, highlight_data, stats, retired, incs>>

DueHighlights(t) == {id \in DOMAIN highlight_data : IsDueHighlight(highlight_data[id], t)}

DueCards(t) == {id \in DOMAIN mastery_cards : IsDueCard(mastery_cards[id], t)}

\* faulty variant: an omitted limit is the built-in default, not the configured value
EffectiveLimitBuiltIn(limit, per_day) == IF IsSome(limit) THEN Unwrap(limit) ELSE DefaultPerDay

EffectiveLimit(limit, per_day) == IF IsSome(limit) THEN Unwrap(limit) ELSE per_day

\* faulty variant: the session is returned without the emptiness check
create_review_session_unchecked(req) ==
    \E h_order \in Orders(DueHighlights(now)), c_order \in Orders(DueCards(now)) :
        LET items == SessionItems(h_order, c_order,
                        EffectiveLimit(req.highlight_limit, config.highlights_per_day),
                        EffectiveLimit(req.mastery_limit, config.mastery_cards_per_day),
                        now)
        IN  /\ result' = Ok("create_review_session", req,
                            ReviewSessionNew(items, req.session_type, now))
            /\ UNCHANGED <<detached, disk, now, ticks, config, highlight_data, mastery_cards, stats, retired, incs>>

create_review_session(req) ==
    \E h_order \in Orders(DueHighlights(now)), c_order \in Orders(DueCards(now)) :
        LET items == SessionItems(h_order, c_order,
                        EffectiveLimit(req.highlight_limit, config.highlights_per_day),
                        EffectiveLimit(req.mastery_limit, config.mastery_cards_per_day),
                        now)
        IN  /\ result' = IF items = <<>>
                         THEN Err("create_review_session", req, "NoItemsToReview")
                         ELSE Ok("create_review_session", req,
                                 ReviewSessionNew(items, req.session_type, now))
            /\ UNCHANGED <<detached, disk, now, ticks, config, highlight_data, mastery_cards, stats, retired, incs>>

\* the call returns the two counts; counted names the entries the filters let through
get_due_counts ==
    /\ result' = Ok("get_due_counts", <<>>,
                    [highlights_due |-> Cardinality(DueHighlights(now)),
                     mastery_due |-> Cardinality(DueCards(now)),
                     counted_highlights |-> DueHighlights(now),
                     counted_cards |-> DueCards(now)])
    /\ UNCHANGED <<detached, disk, now, ticks, config, highlight_data, mastery_cards, stats, retired, incs>>

Next ==
    \/ \E d \in TickSteps : Tick(d)
    \/ \E c \in Configs : update_config(c)
    \/ \E id \in HighlightIds : register_highlight(id)
    \/ \E id \in HighlightIds, action \in HighlightReviewAction : review_highlight(id, action)
    \/ create_mastery_card
    \/ \E id \in CardIds, feedback \in ReviewFeedback : review_mastery_card(id, feedback)
    \/ \E id \in CardIds : delete_mastery_card(id)
    \/ \E req \in CreateSessionRequests : create_review_session(req)
    \/ get_due_counts

Spec == Init /\ [][Next]_vars

----------------------------------------------------------------------------
(* ReviewStats driven directly: record_review, record_mastery_review and     *)
(* recover_streak are public and take any instant or date string            *)

Records == stats.total_reviews + stats.total_mastery_cards_reviewed

StatsRecordReview(at) ==
    /\ Records < MaxRecords
    /\ stats' = record_review(stats, at)
    /\ incs' = IncsAfter(stats, stats', at)
    /\ result' = Ok("record_review", at, <<>>)
    /\ UNCHANGED <<detached, disk, now, ticks, config, highlight_data, mastery_cards, retired>>

StatsRecordMasteryReview(at) ==
    /\ Records < MaxRecords
    /\ stats' = record_mastery_review(stats, at)
    /\ incs' = IncsAfter(stats, stats', at)
    /\ result' = Ok("record_mastery_review", at, <<>>)
    /\ UNCHANGED <<detached, disk, now, ticks, config, highlight_data, mastery_cards, retired>>

StatsRecoverStreak(date_str) ==
    /\ stats.streak.current_streak < MaxStreak
    /\ stats' = recover_streak(stats, date_str, now)
    /\ result' = Ok("recover_streak", date_str, can_recover_streak(stats, now))
    /\ UNCHANGED <<detached, disk, now, ticks, config, highlight_data, mastery_cards, retired, incs>>

\* a day passes
StatsTick ==
    /\ now < MaxDay
    /\ now' = now + 1
    /\ result' = Ok("tick", <<>>, <<>>)
    /\ UNCHANGED <<detached, disk, ticks, config, highlight_data, mastery_cards, stats, retired, incs>>

NextStats ==
    \/ StatsTick
    \/ \E at \in StatsDays : StatsRecordReview(at)
    \/ \E at \in StatsDays : StatsRecordMasteryReview(at)
    \/ \E date_str \in DateStrings : StatsRecoverStreak(date_str)

SpecStats == Init /\ [][NextStats]_vars

----------------------------------------------------------------------------
(* The streak recovery: reviews recorded at the clock's instant, days that   *)
(* pass without a review, can_recover_streak and recover_streak             *)

GapDateStrings == {FormatDate(d) : d \in 0..MaxGapDay} \cup {BadDate}

\* a day passes
GapTick ==
    /\ now < MaxGapDay
    /\ now' = now + 1
    /\ result' = Ok("tick", <<>>, <<>>)
    /\ UNCHANGED <<detached, disk, ticks, config, highlight_data, mastery_cards, stats, retired, incs>>

CanRecoverStreak ==
    /\ result' = Ok("can_recover_streak", <<>>, can_recover_streak(stats, now))
    /\ UNCHANGED <<detached, disk, now, ticks, config, highlight_data, mastery_cards, stats, retired, incs>>

NextRecover ==
    \/ GapTick
    \/ StatsRecordReview(now)
    \/ CanRecoverStreak
    \/ \E date_str \in GapDateStrings : StatsRecoverStreak(date_str)

SpecRecover == Init /\ [][NextRecover]_vars

----------------------------------------------------------------------------
(* sm2::update_sm2 on an SM2Data value: the default state and states built   *)
(* field by field, as the struct's public fields allow                      *)

SM2Inputs ==
    {SM2Default} \cup
    [ease_factor : {MIN_EASE_FACTOR, MIN_EASE_FACTOR + 1, 250},
     interval : {0, 1, 10},
     repetitions : {0, 1, 3}]

InitSM2 ==
    /\ StoreInit
    /\ sm2_data \in SM2Inputs
    /\ half_life_data = HalfLifeDefault
    /\ session = None
    /\ calls = 0
    /\ ApartInit

UpdateSM2(feedback) ==
    /\ calls < MaxUpdates
    /\ calls' = calls + 1
    /\ sm2_data' = update_sm2(sm2_data, feedback)
    /\ result' = Ok("update_sm2", feedback, <<>>)
    /\ UNCHANGED <<now, ticks, config, highlight_data, mastery_cards, stats, disk, retired,
                   incs, half_life_data, session, apart>>

NextSM2 == \E feedback \in ReviewFeedback : UpdateSM2(feedback)

SpecSM2 == InitSM2 /\ [][NextSM2]_vars

\* update_sm2 from the default state only
SpecSM2Default == Init /\ [][NextSM2]_vars

----------------------------------------------------------------------------
(* halflife::update_halflife on a HalfLifeData value: the default state and  *)
(* states with the half-lives get_initial_half_life and the floor give      *)

HalfLifeInputs ==
    [half_life_days : {Rat(1, 1), Rat(7, 4), Rat(7, 1), Rat(14, 1), Rat(28, 1)},
     last_reviewed_at : {None, Some(0)}]

InitHalfLife ==
    /\ StoreInit
    /\ sm2_data = SM2Default
    /\ half_life_data \in HalfLifeInputs
    /\ session = None
    /\ calls = 0
    /\ ApartInit

UpdateHalfLife(feedback) ==
    /\ calls < MaxUpdates
    /\ calls' = calls + 1
    /\ half_life_data' = update_halflife(half_life_data, feedback, now)
    /\ result' = Ok("update_halflife", feedback, <<>>)
    /\ UNCHANGED <<now, ticks, config, highlight_data, mastery_cards, stats, disk, retired,
                   incs, sm2_data, session, apart>>

\* a day passes
DecayTick ==
    /\ now < MaxDecayDay
    /\ now' = now + 1
    /\ result' = Ok("tick", <<>>, <<>>)
    /\ UNCHANGED <<detached, disk, ticks, config, highlight_data, mastery_cards, stats, retired, incs>>

NextHalfLife ==
    \/ DecayTick
    \/ \E feedback \in ReviewFeedback : UpdateHalfLife(feedback)

SpecHalfLife == InitHalfLife /\ [][NextHalfLife]_vars

----------------------------------------------------------------------------
(* A ReviewSession in the hands of its caller: built by ReviewSession::new   *)
(* and navigated with next, previous, is_complete and complete              *)

\* the items are told apart by their place only
SessionNew(n) ==
    /\ session = None
    /\ session' = Some(ReviewSessionNew([i \in 1..n |-> i], "daily", now))
    /\ result' = Ok("new_session", n, <<>>)
    /\ UNCHANGED <<now, ticks, config, highlight_data, mastery_cards, stats, disk, retired,
                   incs, sm2_data, half_life_data, calls, apart>>

SessionCall(op, after, value) ==
    /\ session # None
    /\ calls < MaxSessionCalls
    /\ calls' = calls + 1
    /\ session' = Some(after)
    /\ result' = Ok(op, <<>>, value)
    /\ UNCHANGED <<now, ticks, config, highlight_data, mastery_cards, stats, disk, retired,
                   incs, sm2_data, half_life_data, apart>>

SessionNext ==
    /\ session # None
    /\ SessionCall("next", next(Unwrap(session)), current_item(next(Unwrap(session))))

SessionPrevious ==
    /\ session # None
    /\ SessionCall("previous", previous(Unwrap(session)),
                   current_item(previous(Unwrap(session))))

SessionIsComplete ==
    /\ session # None
    /\ SessionCall("is_complete", Unwrap(session), is_complete(Unwrap(session)))

SessionComplete ==
    /\ session # None
    /\ SessionCall("complete", complete(Unwrap(session), now), <<>>)

NextSession ==
    \/ \E n \in 0..MaxSessionItems : SessionNew(n)
    \/ SessionNext
    \/ SessionPrevious
    \/ SessionIsComplete
    \/ SessionComplete

SpecSession == Init /\ [][NextSession]_vars

----------------------------------------------------------------------------
(* The texts of a mastery card: get_display_text and get_answer_text on a    *)
(* card built field by field, as CreateMasteryCardRequest allows            *)

InitCloze ==
    /\ StoreInit
    /\ sm2_data = SM2Default
    /\ half_life_data = HalfLifeDefault
    /\ session = None
    /\ calls = 0
    /\ cloze_card \in TextCards
    /\ frequency_tuning = FrequencyTuningDefault
    /\ handlers = [h \in HandlerIds |-> [pc |-> "idle", call |-> None, store |-> None]]

GetDisplayText ==
    /\ result' = Ok("get_display_text", <<>>, get_display_text(cloze_card))
    /\ UNCHANGED <<detached, disk, now, ticks, config, highlight_data, mastery_cards, stats,
                   retired, incs>>

GetAnswerText ==
    /\ result' = Ok("get_answer_text", <<>>, get_answer_text(cloze_card))
    /\ UNCHANGED <<detached, disk, now, ticks, config, highlight_data, mastery_cards, stats,
                   retired, incs>>

NextCloze ==
    \/ GetDisplayText
    \/ GetAnswerText

SpecCloze == InitCloze /\ [][NextCloze]_vars

----------------------------------------------------------------------------
(* A FrequencyTuning value driven directly: its five mutators are public    *)

SetDocument(document_id, multiplier) ==
    /\ frequency_tuning' = set_document(frequency_tuning, document_id, multiplier)
    /\ result' = Ok("set_document", <<document_id, multiplier>>, <<>>)
    /\ UNCHANGED <<now, ticks, config, highlight_data, mastery_cards, stats, disk, retired,
                   incs, sm2_data, half_life_data, session, calls, cloze_card, handlers>>

SetSourceType(source_type, multiplier) ==
    /\ frequency_tuning' = set_source_type(frequency_tuning, source_type, multiplier)
    /\ result' = Ok("set_source_type", <<source_type, multiplier>>, <<>>)
    /\ UNCHANGED <<now, ticks, config, highlight_data, mastery_cards, stats, disk, retired,
                   incs, sm2_data, half_life_data, session, calls, cloze_card, handlers>>

RemoveDocument(document_id) ==
    /\ frequency_tuning' = remove_document(frequency_tuning, document_id)
    /\ result' = Ok("remove_document", <<document_id>>, <<>>)
    /\ UNCHANGED <<now, ticks, config, highlight_data, mastery_cards, stats, disk, retired,
                   incs, sm2_data, half_life_data, session, calls, cloze_card, handlers>>

RemoveSourceType(source_type) ==
    /\ frequency_tuning' = remove_source_type(frequency_tuning, source_type)
    /\ result' = Ok("remove_source_type", <<source_type>>, <<>>)
    /\ UNCHANGED <<now, ticks, config, highlight_data, mastery_cards, stats, disk, retired,
                   incs, sm2_data, half_life_data, session, calls, cloze_card, handlers>>

UpdateDocumentInfo(document_id, title, highlight_count) ==
    /\ frequency_tuning' =
          update_document_info(frequency_tuning, document_id, title, highlight_count)
    /\ result' = Ok("update_document_info", <<document_id, title, highlight_count>>, <<>>)
    /\ UNCHANGED <<now, ticks, config, highlight_data, mastery_cards, stats, disk, retired,
                   incs, sm2_data, half_life_data, session, calls, cloze_card, handlers>>

NextFrequency ==
    \/ \E document_id \in DocumentIds, multiplier \in Multipliers :
          SetDocument(document_id, multiplier)
    \/ \E source_type \in SourceTypeIds, multiplier \in Multipliers :
          SetSourceType(source_type, multiplier)
    \/ \E document_id \in DocumentIds : RemoveDocument(document_id)
    \/ \E source_type \in SourceTypeIds : RemoveSourceType(source_type)
    \/ \E document_id \in DocumentIds, title \in {None, Some("t")}, highlight_count \in 0..MaxCount :
          UpdateDocumentInfo(document_id, title, highlight_count)

SpecFrequency == Init /\ [][NextFrequency]_vars

----------------------------------------------------------------------------
(* The per-call public API under the server's request handlers: each call    *)
(* builds its own store from the data directory (SpacedRepetitionStore::new  *)
(* reads the files one after another), changes it and writes the files it    *)
(* saves.  The handlers take no lock; their steps interleave.                *)

\* the data directory after register_highlight of every id and one create_mastery_card
SharedDisk ==
    [config |-> None,
     highlight_data |-> Some([id \in HighlightIds |-> HighlightSRDataNew(id, HalfLife, 0)]),
     mastery_cards |-> Some([id \in {1} |-> MasteryCardNew(id, HalfLife, 0)]),
     stats |-> None]

\* the requests the handlers serve
HandlerCalls ==
    [op : {"review_highlight"}, id : HighlightIds, arg : HighlightReviewAction]
    \cup [op : {"review_mastery_card"}, id : CardIds, arg : {"good", "never"}]

InitHandlers ==
    /\ now = 0
    /\ ticks = 0
    /\ config = ConfigDefault
    /\ highlight_data = <<>>
    /\ mastery_cards = <<>>
    /\ stats = ReviewStatsDefault(0)
    /\ disk = SharedDisk
    /\ result = Ok("new", <<>>, <<>>)
    /\ retired = {}
    /\ incs = [d \in Days |-> 0]
    /\ sm2_data = SM2Default
    /\ half_life_data = HalfLifeDefault
    /\ session = None
    /\ calls = 0
    /\ ApartInit

\* the step of handler h: its next position, its store and the files it leaves
HandlerStep(h, outcome, pc, store, files) ==
    /\ handlers' = [handlers EXCEPT ![h] = [@ EXCEPT !.pc = pc, !.store = Some(store)]]
    /\ disk' = files
    /\ result' = outcome
    /\ UNCHANGED <<now, ticks, config, highlight_data, mastery_cards, stats, retired, incs,
                   sm2_data, half_life_data, session, calls, cloze_card, frequency_tuning>>

\* a request arrives; SpacedRepetitionStore::new starts from the defaults
Receive(h, call) ==
    /\ handlers[h].pc = "idle"
    /\ handlers' = [handlers EXCEPT ![h] =
          [pc |-> "new", call |-> Some(call),
           store |-> Some([config |-> ConfigDefault, highlight_data |-> <<>>,
                           mastery_cards |-> <<>>, stats |-> ReviewStatsDefault(now)])]]
    /\ result' = Ok("receive", <<h>>, "new")
    /\ UNCHANGED <<now, ticks, config, highlight_data, mastery_cards, stats, disk, retired,
                   incs, sm2_data, half_life_data, session, calls, cloze_card,
                   frequency_tuning>>

\* load_all, file by file: a file that exists replaces the default
LoadConfig(h) ==
    /\ handlers[h].pc = "new"
    /\ LET store == Unwrap(handlers[h].store)
       IN  HandlerStep(h, Ok("load_all", <<h>>, "config"), "config",
                       IF IsSome(disk.config)
                       THEN [store EXCEPT !.config = Unwrap(disk.config)] ELSE store,
                       disk)

LoadHighlights(h) ==
    /\ handlers[h].pc = "config"
    /\ LET store == Unwrap(handlers[h].store)
       IN  HandlerStep(h, Ok("load_all", <<h>>, "highlights"), "highlights",
                       IF IsSome(disk.highlight_data)
                       THEN [store EXCEPT !.highlight_data = Unwrap(disk.highlight_data)]
                       ELSE store,
                       disk)

LoadCards(h) ==
    /\ handlers[h].pc = "highlights"
    /\ LET store == Unwrap(handlers[h].store)
       IN  HandlerStep(h, Ok("load_all", <<h>>, "cards"), "cards",
                       IF IsSome(disk.mastery_cards)
                       THEN [store EXCEPT !.mastery_cards = Unwrap(disk.mastery_cards)]
                       ELSE store,
                       disk)

LoadStats(h) ==
    /\ handlers[h].pc = "cards"
    /\ LET store == Unwrap(handlers[h].store)
       IN  HandlerStep(h, Ok("load_all", <<h>>, "loaded"), "loaded",
                       IF IsSome(disk.stats)
                       THEN [store EXCEPT !.stats = Unwrap(disk.stats)] ELSE store,
                       disk)

\* the store after the item of the call was reviewed at instant t
StoreReviewed(store, call, t) ==
    IF call.op = "review_highlight"
    THEN [store EXCEPT !.highlight_data[call.id] =
            ReviewedHighlight(@, call.arg, store.config.algorithm_type, t)]
    ELSE [store EXCEPT !.mastery_cards[call.id] =
            ReviewedCard(@, call.arg, store.config.algorithm_type, t)]

CallFinds(store, call) ==
    IF call.op = "review_highlight" THEN call.id \in DOMAIN store.highlight_data
    ELSE call.id \in DOMAIN store.mastery_cards

\* the item is looked up, reviewed and its file saved; an unknown id ends the call
ReviewAndSave(h) ==
    /\ handlers[h].pc = "loaded"
    /\ LET store == Unwrap(handlers[h].store)
           call == Unwrap(handlers[h].call)
           reviewed == StoreReviewed(store, call, now)
       IN  IF ~CallFinds(store, call)
           THEN HandlerStep(h, Err(call.op, <<h>>, "NotFound"), "done", store, disk)
           ELSE HandlerStep(h, Ok(call.op, <<h>>, "saved"), "saved", reviewed,
                            IF call.op = "review_highlight"
                            THEN [disk EXCEPT !.highlight_data = Some(reviewed.highlight_data)]
                            ELSE [disk EXCEPT !.mastery_cards = Some(reviewed.mastery_cards)])

\* stats.record_review(now) and save_stats
RecordAndSave(h) ==
    /\ handlers[h].pc = "saved"
    /\ LET store == Unwrap(handlers[h].store)
           call == Unwrap(handlers[h].call)
           counted == [store EXCEPT !.stats = record_review(@, now)]
       IN  HandlerStep(h, Ok(call.op, <<h>>, "done"), "done", counted,
                       [disk EXCEPT !.stats = Some(counted.stats)])

NextHandlers ==
    \/ \E h \in HandlerIds, call \in HandlerCalls : Receive(h, call)
    \/ \E h \in HandlerIds : LoadConfig(h)
    \/ \E h \in HandlerIds : LoadHighlights(h)
    \/ \E h \in HandlerIds : LoadCards(h)
    \/ \E h \in HandlerIds : LoadStats(h)
    \/ \E h \in HandlerIds : ReviewAndSave(h)
    \/ \E h \in HandlerIds : RecordAndSave(h)

SpecHandlers == InitHandlers /\ [][NextHandlers]_vars

----------------------------------------------------------------------------
(* The claims.  The due rule, the limits and the sort key are written out   *)
(* here on the stored records, apart from the operators of the model.       *)

IsSession == result.op = "create_review_session" /\ result.ok
IsNoItems == result.op = "create_review_session" /\ ~result.ok
IsDueCounts == result.op = "get_due_counts"

SessionItemsOf(kind) ==
    {i \in DOMAIN result.value.items : result.value.items[i].item_type = kind}

RuleDue(next_review_at) ==
    \/ next_review_at = None
    \/ next_review_at[1] <= now

RuleDueHighlights ==
    {id \in DOMAIN highlight_data :
        highlight_data[id].status = Active /\ RuleDue(highlight_data[id].next_review_at)}

RuleDueCards ==
    {id \in DOMAIN mastery_cards :
        ~mastery_cards[id].is_suspended /\ RuleDue(mastery_cards[id].next_review_at)}

\* the recall probability an item is ordered by: 0.0 without a decay state
RuleKey(item) ==
    IF item.half_life = None THEN <<0, 0>>
    ELSE IF item.half_life[1].last_reviewed_at = None THEN <<0, 0>>
    ELSE <<(now - item.half_life[1].last_reviewed_at[1]) * item.half_life[1].half_life_days[2],
           item.half_life[1].half_life_days[1]>>

\* 2^(-a[1]/a[2]) <= 2^(-b[1]/b[2]), a zero denominator standing for probability 0
RuleLeq(a, b) ==
    IF a[2] = 0 THEN TRUE
    ELSE IF b[2] = 0 THEN FALSE
    ELSE a[1] * b[2] >= b[1] * a[2]

StoredItem(it) ==
    IF it.item_type = "highlight" THEN highlight_data[it.id] ELSE mastery_cards[it.id]

RuleLimit(limit, per_day) == IF limit = None THEN per_day ELSE limit[1]

RuleHighlightLimit == RuleLimit(result.args.highlight_limit, config.highlights_per_day)
RuleMasteryLimit == RuleLimit(result.args.mastery_limit, config.mastery_cards_per_day)

\* C1: every item of a session returned by create_review_session is an Active
\* highlight record or a non-suspended card whose next_review_at is unset or
\* <= now, and get_due_counts counts exactly the records and cards of that rule.
C1_DueRule ==
    /\ IsSession =>
          \A i \in DOMAIN result.value.items :
              LET it == result.value.items[i]
              IN  IF it.item_type = "highlight"
                  THEN it.id \in RuleDueHighlights
                  ELSE it.id \in RuleDueCards
    /\ IsDueCounts =>
          /\ result.value.highlights_due = Cardinality(RuleDueHighlights)
          /\ result.value.mastery_due = Cardinality(RuleDueCards)

\* a session holding an item that was reviewed and came due again, while a
\* discarded record stays out of it
C1_Witness ==
    /\ IsSession
    /\ \E i \in DOMAIN result.value.items : result.value.items[i].review_count > 0
    /\ \E id \in DOMAIN highlight_data : highlight_data[id].status = Discarded

\* C2: once review_highlight(id, Discard) or review_highlight(id, Master) has
\* succeeded, the record of id is in no session and is not counted as due,
\* whatever calls follow.
C2_RetiredNeverDue ==
    /\ IsSession =>
          \A i \in SessionItemsOf("highlight") : result.value.items[i].id \notin retired
    /\ IsDueCounts =>
          /\ result.value.counted_highlights \cap retired = {}
          /\ result.value.highlights_due = Cardinality(result.value.counted_highlights)
          /\ result.value.highlights_due <= Cardinality(DOMAIN highlight_data \ retired)

\* a session built after a discarded record was reviewed again with Keep
C2_Witness ==
    /\ IsSession
    /\ \E id \in retired :
          /\ highlight_data[id].review_count >= 2
          /\ highlight_data[id].next_review_at # None

\* C3: each highlight record has next_review_at set if and only if its status
\* is Active.
C3_NextReviewIffActive ==
    \A id \in DOMAIN highlight_data :
        highlight_data[id].next_review_at # None <=> highlight_data[id].status = Active

\* C4: register_highlight with an id that has a record returns that record and
\* leaves the stored records as they are.
C4_RegisterIdempotent ==
    [][(result'.op = "register_highlight" /\ result'.args \in DOMAIN highlight_data)
         => /\ highlight_data' = highlight_data
            /\ result'.value = highlight_data[result'.args]]_vars

\* a record registered again after it was reviewed and the clock moved on
C4_Witness ==
    /\ result.op = "register_highlight"
    /\ result.value.review_count > 0
    /\ result.value.created_at < now

\* C5: in a session the highlight items come before the card items, and the
\* items of one kind are in ascending order of recall probability, an item
\* without decay state counting as 0.0.
C5_SessionOrder ==
    IsSession =>
        \A i, j \in DOMAIN result.value.items :
            i < j =>
                LET a == result.value.items[i]
                    b == result.value.items[j]
                IN  /\ ~(a.item_type = "mastery_card" /\ b.item_type = "highlight")
                    /\ a.item_type = b.item_type
                         => RuleLeq(RuleKey(StoredItem(a)), RuleKey(StoredItem(b)))

\* a session of two items of one kind with different recall probabilities above 0
C5_Witness ==
    /\ IsSession
    /\ \E i, j \in DOMAIN result.value.items :
          LET a == result.value.items[i]
              b == result.value.items[j]
          IN  /\ i < j
              /\ a.item_type = b.item_type
              /\ RuleKey(StoredItem(a))[2] # 0
              /\ ~RuleLeq(RuleKey(StoredItem(b)), RuleKey(StoredItem(a)))

C7_SessionLimits ==
    IsSession =>
        /\ Cardinality(SessionItemsOf("highlight"))
             = Min(RuleHighlightLimit, Cardinality(RuleDueHighlights))
        /\ Cardinality(SessionItemsOf("mastery_card"))
             = Min(RuleMasteryLimit, Cardinality(RuleDueCards))
        /\ \A i, j \in DOMAIN result.value.items : i # j => result.value.items[i] # result.value.items[j]
        /\ \A i \in SessionItemsOf("highlight") :
              \A u \in RuleDueHighlights \ {result.value.items[k].id : k \in SessionItemsOf("highlight")} :
                  RuleLeq(RuleKey(highlight_data[result.value.items[i].id]),
                          RuleKey(highlight_data[u]))
        /\ \A i \in SessionItemsOf("mastery_card") :
              \A u \in RuleDueCards \ {result.value.items[k].id : k \in SessionItemsOf("mastery_card")} :
                  RuleLeq(RuleKey(mastery_cards[result.value.items[i].id]),
                          RuleKey(mastery_cards[u]))

\* the configured per-day value cuts two due highlights down to the one of
\* lower recall probability
C7_Witness ==
    /\ IsSession
    /\ result.args.highlight_limit = None
    /\ config.highlights_per_day = 1
    /\ \E u \in RuleDueHighlights :
          /\ u \notin {result.value.items[k].id : k \in SessionItemsOf("highlight")}
          /\ \E i \in SessionItemsOf("highlight") :
                ~RuleLeq(RuleKey(highlight_data[u]),
                         RuleKey(highlight_data[result.value.items[i].id]))

IsRecord == result.op \in {"record_review", "record_mastery_review"}

\* C8: update_streak(date): with no previous review current_streak = 1 and
\* streak_start_date = date; with date = last_review_date nothing changes;
\* with date one day after last_review_date current_streak grows by 1 and
\* streak_start_date stays; with date more than one day after it
\* current_streak = 1 and streak_start_date = date; last_review_date becomes
\* date in every case but the same-date one.
C8_StreakTable ==
    [][result'.op \in {"record_review", "record_mastery_review"} =>
         LET date == <<"iso", result'.args>>
             s == stats.streak
             s2 == stats'.streak
             last == s.last_review_date
         IN  /\ last # <<date>> => s2.last_review_date = <<date>>
             /\ last = None =>
                   /\ s2.current_streak = 1
                   /\ s2.streak_start_date = <<date>>
                   /\ s2.last_review_date = <<date>>
             /\ last = <<date>> => s2 = s
             /\ (last # None /\ last[1][1] = "iso" /\ result'.args - last[1][2] = 1) =>
                   /\ s2.current_streak = s.current_streak + 1
                   /\ s2.streak_start_date = s.streak_start_date
                   /\ s2.last_review_date = <<date>>
             /\ (last # None /\ last[1][1] = "iso" /\ result'.args - last[1][2] > 1) =>
                   /\ s2.current_streak = 1
                   /\ s2.streak_start_date = <<date>>
                   /\ s2.last_review_date = <<date>>]_vars

\* a review after a gap has reset a streak that had grown to two days
C8_Witness ==
    /\ IsRecord
    /\ stats.streak.current_streak = 1
    /\ stats.streak.longest_streak >= 2
    /\ stats.streak.streak_start_date = <<<<"iso", result.args>>>>
    /\ stats.streak.last_review_date = <<<<"iso", result.args>>>>

\* C9: the reviews recorded on one calendar date raise current_streak at most
\* once in total, whatever the order of the timestamps.
C9_OncePerDate == \A d \in Days : incs[d] <= 1

\* C10: longest_streak >= current_streak in every state, and longest_streak
\* never decreases from one state to the next.
C10_HighWater ==
    /\ [](stats.streak.longest_streak >= stats.streak.current_streak)
    /\ [][stats'.streak.longest_streak >= stats.streak.longest_streak]_vars

\* a recovered streak has raised the high-water mark
C10_Witness ==
    /\ result.op = "recover_streak"
    /\ result.value = TRUE
    /\ stats.streak.current_streak >= 2
    /\ stats.streak.longest_streak = stats.streak.current_streak

\* the days from the stored last_review_date to today; none when there is no
\* date or the stored text is no date
GapDays ==
    IF stats.streak.last_review_date = <<>> THEN <<>>
    ELSE IF stats.streak.last_review_date[1][1] # "iso" THEN <<>>
    ELSE <<now - stats.streak.last_review_date[1][2]>>

\* C11: can_recover_streak() is true exactly when a last_review_date exists
\* and today is 2 to 7 days after it; false for gaps 0 and 1, for gaps of 8
\* or more and when no review was ever recorded.
C11_RecoverWindow ==
    result.op = "can_recover_streak" =>
        /\ result.value = (GapDays # <<>> /\ GapDays[1] \in 2..7)
        /\ stats.streak.last_review_date = <<>> => result.value = FALSE
        /\ (GapDays # <<>> /\ GapDays[1] \in {0, 1}) => result.value = FALSE
        /\ (GapDays # <<>> /\ GapDays[1] >= 8) => result.value = FALSE

\* the window is still open on its last day
C11_Witness ==
    /\ result.op = "can_recover_streak"
    /\ result.value = TRUE
    /\ GapDays = <<7>>

\* C12: recover_streak(date) returns can_recover_streak(); when that is true
\* it adds 1 to current_streak, sets last_review_date to date and raises
\* longest_streak to current_streak if that is larger; when it is false no
\* streak field changes.
C12_RecoverStreak ==
    [][result'.op = "recover_streak" =>
         LET s == stats.streak
             s2 == stats'.streak
             open == GapDays # <<>> /\ GapDays[1] \in 2..7
         IN  /\ result'.value = open
             /\ open =>
                   /\ s2.current_streak = s.current_streak + 1
                   /\ s2.last_review_date = <<result'.args>>
                   /\ s2.longest_streak =
                        IF s.current_streak + 1 > s.longest_streak
                        THEN s.current_streak + 1 ELSE s.longest_streak
             /\ ~open => s2 = s]_vars

\* a recovery went through after a gap of two days or more
C12_Witness ==
    /\ result.op = "recover_streak"
    /\ result.value = TRUE
    /\ stats.streak.last_review_date = <<result.args>>
    /\ stats.streak.current_streak = 2
    /\ now >= 2

\* the change of the ease factor, in hundredths, before the floor
RuleEaseDelta(feedback) ==
    CASE feedback \in {"again", "soon"} -> -80
      [] feedback = "hard" -> -14
      [] feedback \in {"good", "later"} -> 0
      [] feedback \in {"easy", "someday"} -> 10

\* C13: from the default state or any state with ease_factor >= 1.3, after
\* any sequence of update_sm2 calls ease_factor >= 1.3; each update adds
\* -0.80 (Again/Soon), -0.14 (Hard), 0 (Good/Later) or +0.10 (Easy/Someday)
\* and floors the result at 1.3.
C13_EaseFloor ==
    /\ [](sm2_data.ease_factor >= 130)
    /\ [][(result'.op = "update_sm2" /\ result'.args # "never") =>
            LET moved == sm2_data.ease_factor + RuleEaseDelta(result'.args)
            IN  sm2_data'.ease_factor = IF moved < 130 THEN 130 ELSE moved]_vars

\* two lapses from 2.5 have run into the floor
C13_Witness ==
    /\ result.op = "update_sm2"
    /\ result.args \in {"again", "soon"}
    /\ calls >= 2
    /\ sm2_data.ease_factor = 130
    /\ sm2_data.repetitions = 0

\* C15: update_sm2 follows the SM-2 rule: Again/Soon set repetitions = 0 and
\* interval = 1; Hard, Good/Later, Easy/Someday add 1 to repetitions and set
\* interval to 1 for the first repetition, 6 for the second and otherwise to
\* round(previous interval x ease factor before the update); [Good, Good]
\* from the default state gives repetitions 1, 2 and interval 1, 6 with
\* ease_factor 2.5 throughout.
C15_SM2Rule ==
    /\ [][(result'.op = "update_sm2" /\ result'.args # "never") =>
            IF result'.args \in {"again", "soon"}
            THEN sm2_data'.repetitions = 0 /\ sm2_data'.interval = 1
            ELSE /\ sm2_data'.repetitions = sm2_data.repetitions + 1
                 /\ sm2_data'.interval =
                      CASE sm2_data'.repetitions = 1 -> 1
                        [] sm2_data'.repetitions = 2 -> 6
                        [] OTHER ->
                            (sm2_data.interval * sm2_data.ease_factor + 50) \div 100]_vars
    /\ [](LET once == update_sm2(SM2Default, "good")
              twice == update_sm2(once, "good")
          IN  /\ once = [ease_factor |-> 250, interval |-> 1, repetitions |-> 1]
              /\ twice = [ease_factor |-> 250, interval |-> 6, repetitions |-> 2])

\* a third repetition has stretched the interval of 6 by the ease factor 2.5
C15_Witness ==
    /\ result.op = "update_sm2"
    /\ result.args = "good"
    /\ calls = 3
    /\ sm2_data = [ease_factor |-> 250, interval |-> 15, repetitions |-> 3]

\* the multiplier of the half-life, in quarters
RuleMultiplier(feedback) ==
    CASE feedback \in {"again", "soon"} -> 2
      [] feedback = "hard" -> 3
      [] feedback \in {"good", "later"} -> 4
      [] feedback \in {"easy", "someday"} -> 6

\* C14: from the default state or any state with half_life_days >= 1.0, after
\* any sequence of update_halflife calls half_life_days >= 1.0; each update
\* multiplies by 0.5, 0.75, 1.0 or 1.5 and floors the result at 1.0.
C14_HalfLifeFloor ==
    /\ [](half_life_data.half_life_days[1] >= half_life_data.half_life_days[2])
    /\ [][(result'.op = "update_halflife" /\ result'.args # "never") =>
            LET h == half_life_data.half_life_days
                h2 == half_life_data'.half_life_days
                m == RuleMultiplier(result'.args)
            IN  IF h[1] * m < h[2] * 4
                THEN h2[1] = h2[2]
                ELSE h2[1] * h[2] * 4 = h[1] * m * h2[2]]_vars

\* a lapse from a half-life below 2.0 has run into the floor
C14_Witness ==
    /\ result.op = "update_halflife"
    /\ result.args \in {"again", "soon"}
    /\ calls >= 3
    /\ half_life_data.half_life_days = <<1, 1>>
    /\ half_life_data.last_reviewed_at = <<now>>

\* the algorithm states the store holds
StoredSM2 ==
    {Unwrap(highlight_data[h].sm2) : h \in {x \in DOMAIN highlight_data : IsSome(highlight_data[x].sm2)}}
    \cup {Unwrap(mastery_cards[c].sm2) : c \in {x \in DOMAIN mastery_cards : IsSome(mastery_cards[x].sm2)}}

StoredHalfLife ==
    {Unwrap(highlight_data[h].half_life) :
        h \in {x \in DOMAIN highlight_data : IsSome(highlight_data[x].half_life)}}
    \cup {Unwrap(mastery_cards[c].half_life) :
        c \in {x \in DOMAIN mastery_cards : IsSome(mastery_cards[x].half_life)}}

\* C16: feedback Never changes no algorithm state: update_sm2 leaves
\* ease_factor, interval and repetitions as they are, update_halflife leaves
\* half_life_days and last_reviewed_at as they are, and so
\* review_mastery_card(id, Never) leaves the card's sm2 and half_life as they
\* were.
C16_NeverNoOp ==
    /\ [](/\ \A d \in StoredSM2 : update_sm2(d, "never") = d
          /\ \A d \in StoredHalfLife : update_halflife(d, "never", now) = d)
    /\ [][(result'.op = "review_mastery_card" /\ result'.ok /\ result'.args[2] = "never") =>
            LET id == result'.args[1]
            IN  /\ mastery_cards'[id].sm2 = mastery_cards[id].sm2
                /\ mastery_cards'[id].half_life = mastery_cards[id].half_life]_vars

\* a card reviewed once under the ease-factor algorithm was then reviewed with Never
C16_Witness ==
    /\ result.op = "review_mastery_card"
    /\ result.ok
    /\ result.args[2] = "never"
    /\ result.value.review_count = 2
    /\ result.value.sm2 = <<[ease_factor |-> 250, interval |-> 1, repetitions |-> 1]>>

\* C17: review_highlight adds exactly 1 to review_count and stamps
\* last_reviewed_at for every action; Keep changes the state of the configured
\* algorithm as update_sm2(state, Good) does under the ease-factor algorithm
\* and as update_halflife(state, Later) does under the decay algorithm;
\* Discard and Master leave the algorithm state unchanged.
C17_ReviewHighlight ==
    [][(result'.op = "review_highlight" /\ result'.ok) =>
         LET id == result'.args[1]
             action == result'.args[2]
             h == highlight_data[id]
             h2 == highlight_data'[id]
         IN  /\ h2.review_count = h.review_count + 1
             /\ h2.last_reviewed_at = <<now>>
             /\ (action = "keep" /\ config.algorithm_type = SM2) =>
                   /\ h2.sm2 = IF h.sm2 = <<>> THEN <<>>
                               ELSE <<update_sm2(h.sm2[1], "good")>>
                   /\ h2.half_life = h.half_life
             /\ (action = "keep" /\ config.algorithm_type = HalfLife) =>
                   /\ h2.half_life = IF h.half_life = <<>> THEN <<>>
                                     ELSE <<update_halflife(h.half_life[1], "later", now)>>
                   /\ h2.sm2 = h.sm2
             /\ action \in {"discard", "master"} =>
                   /\ h2.sm2 = h.sm2
                   /\ h2.half_life = h.half_life]_vars

\* a second Keep under the ease-factor algorithm gave the interval of six days
C17_Witness ==
    /\ result.op = "review_highlight"
    /\ result.ok
    /\ result.args[2] = "keep"
    /\ result.value.review_count = 2
    /\ result.value.sm2 = <<[ease_factor |-> 250, interval |-> 6, repetitions |-> 2]>>
    /\ result.value.last_reviewed_at = <<now>>

\* C18: review_highlight, review_mastery_card and delete_mastery_card succeed
\* only for an id that has a record or card; for any other id they return
\* HighlightNotFound / CardNotFound and leave highlight records, mastery
\* cards and stats unchanged, in memory and in the files of the data directory.
C18_NotFound ==
    [][/\ result'.op = "review_highlight" =>
            IF result'.ok THEN result'.args[1] \in DOMAIN highlight_data
            ELSE /\ result'.value = "HighlightNotFound"
                 /\ UNCHANGED <<highlight_data, mastery_cards, stats, disk>>
       /\ result'.op = "review_mastery_card" =>
            IF result'.ok THEN result'.args[1] \in DOMAIN mastery_cards
            ELSE /\ result'.value = "CardNotFound"
                 /\ UNCHANGED <<highlight_data, mastery_cards, stats, disk>>
       /\ result'.op = "delete_mastery_card" =>
            IF result'.ok THEN result'.args \in DOMAIN mastery_cards
            ELSE /\ result'.value = "CardNotFound"
                 /\ UNCHANGED <<highlight_data, mastery_cards, stats, disk>>]_vars

\* a card review was refused in a store that holds a reviewed highlight
C18_Witness ==
    /\ result.op = "review_mastery_card"
    /\ ~result.ok
    /\ result.value = "CardNotFound"
    /\ highlight_data # <<>>
    /\ stats.total_reviews = 1
    /\ disk.stats = <<stats>>
    /\ disk.mastery_cards = <<>>

\* C19: next() before the end adds 1 to current_index and to completed_count
\* and does nothing at the end; previous() subtracts 1 from current_index
\* (nothing at 0) and leaves completed_count alone; completed_count never
\* decreases over next / previous / complete calls; is_complete() holds
\* exactly when current_index equals the number of items.
C19_Navigation ==
    /\ [][session # <<>> =>
            LET s == session[1]
                s2 == session'[1]
                n == Len(s.items)
            IN  /\ s2.completed_count >= s.completed_count
                /\ result'.op = "next" =>
                      IF s.current_index < n
                      THEN /\ s2.current_index = s.current_index + 1
                           /\ s2.completed_count = s.completed_count + 1
                      ELSE s2 = s
                /\ result'.op = "previous" =>
                      /\ s2.current_index =
                           IF s.current_index = 0 THEN 0 ELSE s.current_index - 1
                      /\ s2.completed_count = s.completed_count
                /\ result'.op = "is_complete" =>
                      result'.value = (s.current_index = n)]_vars
    /\ [](session # <<>> =>
            (is_complete(session[1]) <=> session[1].current_index = Len(session[1].items)))

\* stepping back twice has left the cursor behind the count
C19_Witness ==
    /\ session # <<>>
    /\ result.op = "previous"
    /\ session[1].current_index = 1
    /\ session[1].completed_count = 3
    /\ Len(session[1].items) = 2

\* C20: Discarded and Mastered are terminal: once a highlight record has one
\* of these statuses, no later operation (review_highlight with Keep, Discard
\* or Master, register_highlight, update_config) changes its status.
C20_TerminalStatus ==
    [][\A id \in DOMAIN highlight_data :
         highlight_data[id].status \in {Discarded, Mastered} =>
            highlight_data'[id].status = highlight_data[id].status]_vars

\* C21: each highlight record and each mastery card holds exactly one
\* algorithm state (sm2 or half_life, never both, never neither), and it is
\* the state of the configured AlgorithmType, also after update_config.
C21_OneAlgorithmState ==
    /\ \A id \in DOMAIN highlight_data :
          /\ (highlight_data[id].sm2 # <<>>) # (highlight_data[id].half_life # <<>>)
          /\ (highlight_data[id].sm2 # <<>>) <=> (config.algorithm_type = "sm2")
    /\ \A id \in DOMAIN mastery_cards :
          /\ (mastery_cards[id].sm2 # <<>>) # (mastery_cards[id].half_life # <<>>)
          /\ (mastery_cards[id].sm2 # <<>>) <=> (config.algorithm_type = "sm2")

\* the per-day counter of a kind on a date; 0 while the date has no entry
RuleDaily(st, date, kind) ==
    IF date \in DOMAIN st.reviews_by_date THEN st.reviews_by_date[date][kind] ELSE 0

\* the sum of the per-day counters of a kind over the dates of S
RECURSIVE RuleDailySum(_, _, _)
RuleDailySum(st, S, kind) ==
    IF S = {} THEN 0
    ELSE LET d == CHOOSE x \in S : TRUE
         IN  st.reviews_by_date[d][kind] + RuleDailySum(st, S \ {d}, kind)

\* C22: every successful review_mastery_card adds exactly 1 to that day's
\* mastery_cards_reviewed and to total_mastery_cards_reviewed and leaves the
\* highlight counters unchanged; every successful review_highlight adds
\* exactly 1 to that day's highlights_reviewed and to the cumulative counter
\* of highlight reviews and leaves the mastery counters unchanged; each
\* cumulative per-kind counter equals the sum of the matching per-day counters.
C22_CountByKind ==
    /\ [][(result'.op = "review_mastery_card" /\ result'.ok) =>
            LET today == <<"iso", now>>
            IN  /\ RuleDaily(stats', today, "mastery_cards_reviewed")
                     = RuleDaily(stats, today, "mastery_cards_reviewed") + 1
                /\ stats'.total_mastery_cards_reviewed = stats.total_mastery_cards_reviewed + 1
                /\ RuleDaily(stats', today, "highlights_reviewed")
                     = RuleDaily(stats, today, "highlights_reviewed")
                /\ stats'.total_reviews = stats.total_reviews]_vars
    /\ [][(result'.op = "review_highlight" /\ result'.ok) =>
            LET today == <<"iso", now>>
            IN  /\ RuleDaily(stats', today, "highlights_reviewed")
                     = RuleDaily(stats, today, "highlights_reviewed") + 1
                /\ stats'.total_reviews = stats.total_reviews + 1
                /\ RuleDaily(stats', today, "mastery_cards_reviewed")
                     = RuleDaily(stats, today, "mastery_cards_reviewed")
                /\ stats'.total_mastery_cards_reviewed = stats.total_mastery_cards_reviewed]_vars
    /\ [](/\ stats.total_mastery_cards_reviewed
               = RuleDailySum(stats, DOMAIN stats.reviews_by_date, "mastery_cards_reviewed")
          /\ stats.total_reviews
               = RuleDailySum(stats, DOMAIN stats.reviews_by_date, "highlights_reviewed"))

\* the spans of the card all lie within its text, are not empty and do not overlap
RuleSpansValid ==
    /\ cloze_card.card_type = "cloze"
    /\ cloze_card.cloze_text # <<>>
    /\ \A k \in DOMAIN cloze_card.cloze_deletions :
          LET d == cloze_card.cloze_deletions[k]
          IN  0 <= d.start /\ d.start < d.end /\ d.end <= Len(cloze_card.cloze_text[1])
    /\ \A j, k \in DOMAIN cloze_card.cloze_deletions :
          j # k =>
             \/ cloze_card.cloze_deletions[j].end <= cloze_card.cloze_deletions[k].start
             \/ cloze_card.cloze_deletions[k].end <= cloze_card.cloze_deletions[j].start

\* the placeholder of the k-th deletion of the list
RulePlaceholder(k, d) ==
    <<"[", ".", ".", ".">>
    \o (IF d.hint = <<>> THEN <<(<<"1", "2", "3", "4", "5", "6", "7", "8", "9">>)[k]>>
        ELSE d.hint[1])
    \o <<".", ".", ".", "]">>

\* the text from offset p on, each span replaced by its placeholder
RECURSIVE RuleRedacted(_, _, _)
RuleRedacted(text, deletions, p) ==
    IF p >= Len(text) THEN <<>>
    ELSE IF \E k \in DOMAIN deletions : deletions[k].start = p
    THEN LET k == CHOOSE j \in DOMAIN deletions : deletions[j].start = p
         IN  RulePlaceholder(k, deletions[k]) \o RuleRedacted(text, deletions, deletions[k].end)
    ELSE <<text[p + 1]>> \o RuleRedacted(text, deletions, p + 1)

\* C23: for a Cloze card whose deletion spans all lie within the text and do
\* not overlap, in whatever order they are listed, get_display_text returns
\* the text with each span replaced by its placeholder ([...hint...], or
\* [...k...] for the k-th deletion) and every character outside the spans
\* unchanged, so that no character of a deleted span remains; get_answer_text
\* returns the text verbatim.
C23_ClozeDisplay ==
    /\ (result.op = "get_display_text" /\ RuleSpansValid) =>
          /\ result.value
               = RuleRedacted(cloze_card.cloze_text[1], cloze_card.cloze_deletions, 0)
          /\ \A k \in DOMAIN cloze_card.cloze_deletions :
                \A i \in (cloze_card.cloze_deletions[k].start + 1)..cloze_card.cloze_deletions[k].end :
                    \A j \in DOMAIN result.value :
                        result.value[j] # cloze_card.cloze_text[1][i]
    /\ (result.op = "get_answer_text" /\ cloze_card.card_type = "cloze"
          /\ cloze_card.cloze_text # <<>>) =>
          result.value = cloze_card.cloze_text[1]

\* a multiplier within [0.1, 10.0]
RuleInRange(m) == m[1] = "num" /\ m[2] >= 10 /\ m[2] <= 1000

\* C24: after any sequence of set_document, set_source_type,
\* update_document_info, remove_document and remove_source_type calls with any
\* multiplier arguments, every stored document multiplier and source-type
\* multiplier lies in [0.1, 10.0], and set_document on a stored document
\* changes only its multiplier (title and highlight_count are preserved).
C24_MultiplierRange ==
    /\ [](/\ \A d \in DOMAIN frequency_tuning.documents :
                RuleInRange(frequency_tuning.documents[d].multiplier)
          /\ \A s \in DOMAIN frequency_tuning.source_types :
                RuleInRange(frequency_tuning.source_types[s]))
    /\ [][(result'.op = "set_document"
             /\ result'.args[1] \in DOMAIN frequency_tuning.documents) =>
            LET d == result'.args[1]
            IN  /\ DOMAIN frequency_tuning'.documents = DOMAIN frequency_tuning.documents
                /\ frequency_tuning'.documents[d].title = frequency_tuning.documents[d].title
                /\ frequency_tuning'.documents[d].highlight_count
                     = frequency_tuning.documents[d].highlight_count
                /\ \A e \in DOMAIN frequency_tuning.documents \ {d} :
                      frequency_tuning'.documents[e] = frequency_tuning.documents[e]
                /\ frequency_tuning'.source_types = frequency_tuning.source_types]_vars

\* the store a call builds from the files d
RuleLoaded(d) ==
    [config |-> IF d.config = <<>> THEN ConfigDefault ELSE d.config[1],
     highlight_data |-> IF d.highlight_data = <<>> THEN <<>> ELSE d.highlight_data[1],
     mastery_cards |-> IF d.mastery_cards = <<>> THEN <<>> ELSE d.mastery_cards[1],
     stats |-> IF d.stats = <<>> THEN ReviewStatsDefault(now) ELSE d.stats[1]]

\* the files a call leaves when it runs alone on the files d
RuleServed(d, call) ==
    LET store == RuleLoaded(d)
    IN  IF ~CallFinds(store, call) THEN d
        ELSE LET reviewed == StoreReviewed(store, call, now)
             IN  [d EXCEPT !.highlight_data =
                               IF call.op = "review_highlight"
                               THEN <<reviewed.highlight_data>> ELSE @,
                           !.mastery_cards =
                               IF call.op = "review_mastery_card"
                               THEN <<reviewed.mastery_cards>> ELSE @,
                           !.stats = <<record_review(store.stats, now)>>]

\* the files after the calls of the handlers ran one after another in the given order
RECURSIVE RuleSerial(_, _)
RuleSerial(d, order) ==
    IF order = <<>> THEN d
    ELSE RuleSerial(RuleServed(d, handlers[Head(order)].call[1]), Tail(order))

\* C25: when two mutating calls of the per-call public API run against the
\* same data directory from two request handlers, the final persisted state
\* is the one some serial order of the calls would produce: no call's update
\* to records, cards or stats is lost.
C25_SingleWriter ==
    (\A h \in HandlerIds : handlers[h].pc = "done") =>
        \E order \in Orders(HandlerIds) : disk = RuleSerial(SharedDisk, order)

\* C26: a successful review takes the item out of the due set: after
\* review_highlight(id, Keep) on an Active record, or review_mastery_card(id, f)
\* with f other than Never, the item's next_review_at is at least one whole
\* day after the review instant, so that it is not due at that instant; in
\* every reachable state, also after update_config changed the algorithm type.
C26_Rescheduled ==
    /\ [][(result'.op = "review_highlight" /\ result'.ok /\ result'.args[2] = "keep"
             /\ highlight_data[result'.args[1]].status = "active") =>
            LET h2 == highlight_data'[result'.args[1]]
            IN  /\ h2.next_review_at # <<>>
                /\ h2.next_review_at[1] >= now + 1
                /\ ~(h2.status = "active" /\ h2.next_review_at[1] <= now)]_vars
    /\ [][(result'.op = "review_mastery_card" /\ result'.ok /\ result'.args[2] # "never") =>
            LET c2 == mastery_cards'[result'.args[1]]
            IN  /\ c2.next_review_at # <<>>
                /\ c2.next_review_at[1] >= now + 1
                /\ ~(~c2.is_suspended /\ c2.next_review_at[1] <= now)]_vars

\* C27: in every ease-factor state reachable from the default state by
\* update_sm2 calls, interval >= 1 after any update other than Never, and a
\* successful review (Hard, Good, Later, Easy or Someday) never gives an
\* interval shorter than the interval before that review.
C27_IntervalGrows ==
    /\ [][(result'.op = "update_sm2" /\ result'.args # "never") =>
            sm2_data'.interval >= 1]_vars
    /\ [][(result'.op = "update_sm2"
             /\ result'.args \in {"hard", "good", "later", "easy", "someday"}) =>
            sm2_data'.interval >= sm2_data.interval]_vars

\* after a lapse three Hard reviews have brought the ease factor to its floor
\* and stretched the interval of 6 by the ease factor 1.42
C27_Witness ==
    /\ result.op = "update_sm2"
    /\ result.args = "hard"
    /\ calls = 4
    /\ sm2_data = [ease_factor |-> 130, interval |-> 9, repetitions |-> 3]

\* C28: for a reviewed decay item, in every state reachable by
\* update_halflife calls, whenever the next review time (last_reviewed_at +
\* half-life days, as next_review_date gives it) is at or before now,
\* is_due_for_review is true: at least one full half-life has elapsed and the
\* recall probability is <= 0.5.
C28_ScheduleAgrees ==
    half_life_data.last_reviewed_at # <<>> =>
        LET h == half_life_data.half_life_days
            last == half_life_data.last_reviewed_at[1]
        IN  next_review_date(half_life_data)[1] <= now =>
                /\ (now - last) * h[2] >= h[1]
                /\ is_due_for_review(half_life_data, now)

\* C29 as stated: in every state of a ReviewSession reachable by next,
\* previous and complete calls, 0 <= current_index <= number of items and
\* completed_count does not exceed the number of items.
C29_SessionBounds ==
    session # <<>> =>
        /\ 0 <= session[1].current_index
        /\ session[1].current_index <= Len(session[1].items)
        /\ session[1].completed_count <= Len(session[1].items)

\* C29 as amended: in every state of a ReviewSession reachable by next,
\* previous and complete calls, 0 <= current_index <= number of items and
\* current_index <= completed_count; completed_count itself is not bounded by
\* the number of items.
C29_IndexBounds ==
    session # <<>> =>
        /\ 0 <= session[1].current_index
        /\ session[1].current_index <= Len(session[1].items)
        /\ session[1].current_index <= session[1].completed_count

\* stepping back and forward again at the end of a session of one item has
\* counted that item twice
C29_Witness ==
    /\ session # <<>>
    /\ result.op = "next"
    /\ Len(session[1].items) = 1
    /\ session[1].current_index = 1
    /\ session[1].completed_count = 2

\* C30: a missed gap is recovered at most once: after recover_streak(date) has
\* returned true, for any date argument, a further recover_streak call on the
\* same day returns false and leaves current_streak unchanged; and once a
\* review recorded after the gap has reset current_streak to 1,
\* recover_streak returns false.  Stated for the call that follows at once.
C30_RecoverOnce ==
    /\ [][(result.op = "recover_streak" /\ result.value = TRUE
             /\ result'.op = "recover_streak") =>
            /\ result'.value = FALSE
            /\ stats'.streak.current_streak = stats.streak.current_streak]_vars
    /\ [][(result.op = "record_review" /\ stats.streak.current_streak = 1
             /\ result'.op = "recover_streak") =>
            /\ result'.value = FALSE
            /\ stats'.streak.current_streak = stats.streak.current_streak]_vars

====
